---------------------------- MODULE Spec2Model ----------------------------
(***************************************************************************)
(* Model of the query routing and evidence-assembly core of the RAG       *)
(* backend (backend/rag/query_engine.py) together with the adapters it    *)
(* calls (agents/web_search_agent.py, mcp/google_drive_client.py).        *)
(*                                                                         *)
(* Texts are sequences of one-character strings, so that Python's         *)
(* substring test, str.lower, str.split and re.findall are computed and   *)
(* not assumed.  Relevance scores are exact fractions [num, den] in       *)
(* lowest terms; with the query lengths used here every comparison with   *)
(* 0.1, 0.2 and 0.3 agrees with the float comparison of the source.       *)
(* A citation's page "N/A" is written 0 and None is written "None", so    *)
(* that citations of different types stay comparable.  Lines 211-270 of   *)
(* query_rag only build the prompt, which is no part of the value          *)
(* returned; the answer of the generative model is any of Answers.        *)
(***************************************************************************)
EXTENDS Integers, Sequences, FiniteSets, TLC

(***************************************************************************)
(* Bounds of the model.                                                    *)
(***************************************************************************)
\* chunks the document index returns for one query (at most k, line 100)
MaxDocs == 2
\* files the real cloud file client returns for one query
MaxFiles == 1
\* pieces the generated answer text is made of
MaxPieces == 1
\* words of a query given to the classifier alone
MaxWords == 2
\* terms of a query given to the relevance scorer alone
MaxTerms == 3
\* messages the server reads from its WebSocket connections, all together
MaxMessages == 2

(***************************************************************************)
(* Python text primitives.                                                 *)
(***************************************************************************)
UpperCase == <<"A","B","C","D","E","F","G","H","I","J","K","L","M","N","O","P","Q","R","S","T","U","V","W","X","Y","Z">>

LowerCase == <<"a","b","c","d","e","f","g","h","i","j","k","l","m","n","o","p","q","r","s","t","u","v","w","x","y","z">>

Digits == <<"0","1","2","3","4","5","6","7","8","9">>

Whitespace == {" ", "\n", "\t"}

\* str.lower() on one character
lower_char(c) ==
    IF \E i \in DOMAIN UpperCase : UpperCase[i] = c
    THEN LowerCase[CHOOSE i \in DOMAIN UpperCase : UpperCase[i] = c]
    ELSE c

\* str.lower(); SubSeq makes the result a tuple computed once
lower(s) == SubSeq([i \in 1..Len(s) |-> lower_char(s[i])], 1, Len(s))

\* Python's `needle in hay` on strings
contains(needle, hay) ==
    \E i \in 0..(Len(hay) - Len(needle)) :
        SubSeq(hay, i + 1, i + Len(needle)) = needle

\* any(keyword in text for keyword in keywords)
any_in(keywords, text) == \E i \in DOMAIN keywords : contains(keywords[i], text)

\* str.split(): the maximal runs of non-whitespace characters, in order
RECURSIVE split(_)
split(s) ==
    IF s = <<>> THEN <<>>
    ELSE IF s[1] \in Whitespace THEN split(Tail(s))
    ELSE LET stops == {i \in 1..Len(s) : s[i] \in Whitespace}
             n == IF stops = {} THEN Len(s) + 1
                  ELSE CHOOSE i \in stops : \A j \in stops : i <= j
         IN  <<SubSeq(s, 1, n - 1)>> \o split(SubSeq(s, n, Len(s)))

\* str(n) for a natural number
RECURSIVE str_of_int(_)
str_of_int(n) ==
    IF n < 10 THEN <<Digits[n + 1]>>
    ELSE str_of_int(n \div 10) \o <<Digits[(n % 10) + 1]>>

\* int(s) for a non-empty string of decimal digits
RECURSIVE int_of_str(_)
int_of_str(s) ==
    IF s = <<>> THEN 0
    ELSE LET d == (CHOOSE i \in DOMAIN Digits : Digits[i] = s[Len(s)]) - 1
         IN  10 * int_of_str(SubSeq(s, 1, Len(s) - 1)) + d

\* "\n\n".join(parts) and friends
RECURSIVE join(_, _)
join(sep, parts) ==
    IF parts = <<>> THEN <<>>
    ELSE IF Len(parts) = 1 THEN parts[1]
    ELSE parts[1] \o sep \o join(sep, Tail(parts))

\* text[:n] + "..." if len(text) > n else text
preview(text, n) ==
    IF Len(text) > n THEN SubSeq(text, 1, n) \o <<".",".",".">> ELSE text

(***************************************************************************)
(* Fractions standing for the floats of the source.                        *)
(***************************************************************************)
RECURSIVE gcd(_, _)
gcd(a, b) == IF b = 0 THEN a ELSE gcd(b, a % b)

Frac(n, d) ==
    IF n = 0 THEN [num |-> 0, den |-> 1]
    ELSE [num |-> n \div gcd(n, d), den |-> d \div gcd(n, d)]

Zero == Frac(0, 1)

FracAdd(x, y) == Frac(x.num * y.den + y.num * x.den, x.den * y.den)

FracDivInt(x, k) == Frac(x.num, x.den * k)

\* x > n/d and x < n/d
FracGt(x, n, d) == x.num * d > n * x.den

FracLt(x, n, d) == x.num * d < n * x.den

(***************************************************************************)
(* Keyword lists of the classifier and of the source-selection policy.     *)
(***************************************************************************)
external_keywords ==
    << <<"w","e","a","t","h","e","r">>,
       <<"t","e","m","p","e","r","a","t","u","r","e">>,
       <<"c","l","i","m","a","t","e">>,
       <<"r","a","i","n">>,
       <<"s","n","o","w">>,
       <<"s","u","n","n","y">>,
       <<"c","l","o","u","d","y">>,
       <<"f","o","r","e","c","a","s","t">>,
       <<"n","e","w","s">>,
       <<"t","o","d","a","y">>,
       <<"c","u","r","r","e","n","t">>,
       <<"l","a","t","e","s","t">>,
       <<"r","e","c","e","n","t">>,
       <<"n","o","w">>,
       <<"h","a","p","p","e","n","i","n","g">>,
       <<"p","r","i","c","e">>,
       <<"s","t","o","c","k">>,
       <<"m","a","r","k","e","t">>,
       <<"b","i","t","c","o","i","n">>,
       <<"c","r","y","p","t","o","c","u","r","r","e","n","c","y">>,
       <<"e","x","c","h","a","n","g","e">>,
       <<"t","r","a","d","i","n","g">>,
       <<"u","s","d">>,
       <<"e","u","r">>,
       <<"d","o","l","l","a","r">>,
       <<"c","i","t","y">>,
       <<"c","o","u","n","t","r","y">>,
       <<"l","o","c","a","t","i","o","n">>,
       <<"m","a","p">>,
       <<"d","i","r","e","c","t","i","o","n","s">>,
       <<"d","i","s","t","a","n","c","e">>,
       <<"t","o","k","y","o">>,
       <<"l","o","n","d","o","n">>,
       <<"p","a","r","i","s">>,
       <<"n","e","w"," ","y","o","r","k">>,
       <<"t","i","m","e">>,
       <<"d","a","t","e">>,
       <<"s","c","h","e","d","u","l","e">>,
       <<"c","a","l","e","n","d","a","r">>,
       <<"w","h","e","n">>,
       <<"w","h","a","t"," ","i","s">>,
       <<"w","h","o"," ","i","s">>,
       <<"h","o","w"," ","t","o">>,
       <<"d","e","f","i","n","e">>,
       <<"m","e","a","n","i","n","g">>,
       <<"l","i","v","e">>,
       <<"r","e","a","l","-","t","i","m","e">>,
       <<"u","p","d","a","t","e","s">>,
       <<"s","t","a","t","u","s">>,
       <<"c","u","r","r","e","n","t"," ","s","t","a","t","u","s">> >>

document_keywords ==
    << <<"d","o","c","u","m","e","n","t">>,
       <<"p","d","f">>,
       <<"f","i","l","e">>,
       <<"p","a","g","e">>,
       <<"s","e","c","t","i","o","n">>,
       <<"c","h","a","p","t","e","r">>,
       <<"r","e","p","o","r","t">>,
       <<"u","p","l","o","a","d","e","d">>,
       <<"t","h","i","s"," ","d","o","c","u","m","e","n","t">>,
       <<"t","h","e"," ","d","o","c","u","m","e","n","t">>,
       <<"a","c","c","o","r","d","i","n","g"," ","t","o">>,
       <<"m","e","n","t","i","o","n","e","d">>,
       <<"c","o","n","t","e","n","t">>,
       <<"t","e","x","t">>,
       <<"w","r","i","t","t","e","n">>,
       <<"s","h","o","w","s">>,
       <<"d","e","s","c","r","i","b","e","s">>,
       <<"a","n","a","l","y","s","i","s">> >>

obvious_external_patterns ==
    << <<"w","e","a","t","h","e","r"," ","i","n">>,
       <<"t","e","m","p","e","r","a","t","u","r","e"," ","i","n">>,
       <<"p","r","i","c","e"," ","o","f">>,
       <<"c","o","s","t"," ","o","f">>,
       <<"b","i","t","c","o","i","n">>,
       <<"c","r","y","p","t","o","c","u","r","r","e","n","c","y">>,
       <<"c","u","r","r","e","n","t">>,
       <<"t","o","d","a","y">>,
       <<"l","a","t","e","s","t">>,
       <<"n","e","w","s"," ","a","b","o","u","t">>,
       <<"w","h","a","t"," ","h","a","p","p","e","n","e","d">>,
       <<"l","i","v","e">> >>

recency_words ==
    << <<"l","a","t","e","s","t">>,
       <<"c","u","r","r","e","n","t">>,
       <<"r","e","c","e","n","t">>,
       <<"u","p","d","a","t","e">>,
       <<"n","e","w">>,
       <<"t","o","d","a","y">>,
       <<"n","o","w">> >>

realtime_words ==
    << <<"n","e","w","s">>,
       <<"m","a","r","k","e","t">>,
       <<"p","r","i","c","e">>,
       <<"s","t","o","c","k">>,
       <<"w","e","a","t","h","e","r">>,
       <<"e","v","e","n","t">> >>

drive_words ==
    << <<"d","o","c","u","m","e","n","t">>,
       <<"f","i","l","e">>,
       <<"r","e","p","o","r","t">>,
       <<"m","y">>,
       <<"o","u","r">>,
       <<"c","o","m","p","a","n","y">> >>


(***************************************************************************)
(* Query Classifier and Relevance Scorer.                                  *)
(***************************************************************************)
is_external_query_external_first(query) ==
    LET query_lower == lower(query)
    IN  \/ any_in(external_keywords, query_lower)
        \/ any_in(obvious_external_patterns, query_lower)

is_external_query(query) ==
    LET query_lower == lower(query)
        has_document_keywords == any_in(document_keywords, query_lower)
        has_external_keywords == any_in(external_keywords, query_lower)
        is_obvious_external == any_in(obvious_external_patterns, query_lower)
    IN  IF has_document_keywords THEN FALSE
        ELSE has_external_keywords \/ is_obvious_external

\* each distinct term counted once
calculate_text_relevance_distinct_terms(query, text) ==
    LET query_terms == split(lower(query))
        text_lower == lower(text)
        matches == Cardinality({query_terms[i] : i \in
                                   {j \in DOMAIN query_terms :
                                       contains(query_terms[j], text_lower)}})
    IN  IF query_terms # <<>> THEN Frac(matches, Len(query_terms)) ELSE Zero

\* a query without terms matches everything
calculate_text_relevance_vacuous(query, text) ==
    LET query_terms == split(lower(query))
        text_lower == lower(text)
        matches == Cardinality({i \in DOMAIN query_terms :
                                    contains(query_terms[i], text_lower)})
    IN  IF query_terms # <<>> THEN Frac(matches, Len(query_terms)) ELSE Frac(1, 1)

calculate_text_relevance(query, text) ==
    LET query_terms == split(lower(query))
        text_lower == lower(text)
        matches == Cardinality({i \in DOMAIN query_terms :
                                    contains(query_terms[i], text_lower)})
    IN  IF query_terms # <<>> THEN Frac(matches, Len(query_terms)) ELSE Zero

(***************************************************************************)
(* What the collaborators can answer.                                      *)
(***************************************************************************)
\* the queries a caller sends to query_rag
Queries ==
    { <<>>, <<"r","e","v","e","n","u","e">>, <<"S","t","o","c","k"," ","r","e","p","o","r","t">>, <<"n","e","w","s"," ","r","e","p","o","r","t">>, <<"w","e","a","t","h","e","r"," ","t","o","d","a","y">>,
      <<"w","e","b">>, <<"m","y"," ","f","i","l","e">>, <<"e","v","e","n","t">>, <<"i","s"," ","r","e","v","e","n","u","e"," ","u","p"," ","y","e","t">>,
      <<"W","h","a","t"," ","i","s"," ","t","h","e"," ","w","e","a","t","h","e","r"," ","i","n"," ","T","o","k","y","o"," ","t","o","d","a","y","?">>,
      <<" ","	">>, <<"d","i","d"," ","r","e","v","e","n","u","e"," ","g","o"," ","u","p"," ","y","e","t">>, <<"r","e","p","o","r","t"," ","m","y"," ","f","i","l","e">>,
      <<"t","e","l","l"," ","m","e"," ","i","f"," ","r","e","v","e","n","u","e"," ","w","e","n","t"," ","u","p"," ","o","r"," ","d","o","w","n"," ","t","h","i","s"," ","y","e","a","r">> }

\* chunks of the document index: page_content and metadata
IndexChunks ==
    { [page_content |-> <<"S","t","o","c","k"," ","r","e","p","o","r","t"," ","n","e","w","s">>, page |-> 1, image_path |-> "None"],
      [page_content |-> <<"r","e","v","e","n","u","e"," ","o","f"," ","m","y"," ","c","o","m","p","a","n","y"," ","f","i","l","e">>, page |-> 2,
       image_path |-> "img2"] }

\* files of the real cloud drive, as search_and_retrieve returns them
DriveFiles ==
    { [name |-> <<"S","t","o","c","k"," ","r","e","p","o","r","t">>, content |-> <<"n","e","w","s">>, url |-> "u1"],
      [name |-> <<"n","o","t","e","s">>, content |-> <<"r","e","v","e","n","u","e"," ","f","i","l","e"," ","e","v","e","n","t">>, url |-> "u2"] }

SeqsUpTo(S, n) == UNION {[1..m -> S] : m \in 0..n}

\* vectorstore.similarity_search(user_input, k): a list of chunks
IndexResults == SeqsUpTo(IndexChunks, MaxDocs)

\* GoogleDriveMCP.search_and_retrieve(query, max_results)
RealDriveResults == SeqsUpTo(DriveFiles, MaxFiles)

MockDriveResults_without_query(query) ==
    << [name |-> <<"M","o","c","k"," ","D","o","c","u","m","e","n","t">>,
        content |-> <<"T","h","i","s"," ","i","s"," ","m","o","c","k"," ","c","o","n","t","e","n","t","."," ","T","h","i","s"," ","w","o","u","l","d"," ","n","o","r","m","a","l","l","y"," ","c","o","m","e"," ","f","r","o","m"," ","G","o","o","g","l","e"," ","D","r","i","v","e",".">>,
        url |-> "https://docs.google.com/mock"] >>

\* MockGoogleDriveMCP.search_and_retrieve(query, max_results)
MockDriveResults(query) ==
    << [name |-> <<"M","o","c","k"," ","D","o","c","u","m","e","n","t"," ","a","b","o","u","t"," ">> \o query,
        content |-> <<"T","h","i","s"," ","i","s"," ","m","o","c","k"," ","c","o","n","t","e","n","t"," ","r","e","l","a","t","e","d"," ","t","o"," ">> \o query
                    \o <<"."," ","T","h","i","s"," ","w","o","u","l","d"," ","n","o","r","m","a","l","l","y"," ","c","o","m","e"," ","f","r","o","m"," ","G","o","o","g","l","e"," ","D","r","i","v","e",".">>,
        url |-> "https://docs.google.com/mock"] >>

\* what search_tool.run(query) can do: raise, return a plain string, or
\* return a JSON list of result objects
NoItems == <<>>

BackendOutcomes ==
    { [kind |-> "raise", text |-> <<"t","i","m","e","o","u","t">>, items |-> NoItems],
      [kind |-> "text", text |-> <<"S","t","o","c","k"," ","n","e","w","s"," ","t","o","d","a","y">>, items |-> NoItems],
      [kind |-> "text", text |-> <<>>, items |-> NoItems],
      [kind |-> "text", text |-> <<"r","e","v","e","n","u","e">>, items |-> NoItems],
      [kind |-> "list", text |-> <<>>, items |-> NoItems],
      [kind |-> "list", text |-> <<>>,
       items |-> << [title |-> <<"R","e","v","e","n","u","e">>, snippet |-> <<"u","p">>, link |-> <<"u">>] >>] }

\* pieces of generated answer text
AnswerPieces ==
    { <<"[","1","]">>, <<"[","2","]">>, <<"[","3","]">>, <<"[","0","]">>, <<"[">>, <<"[","1","]","[","3","]">>, <<"[","0","]","[","3","]">> }

RECURSIVE concat(_)
concat(parts) == IF parts = <<>> THEN <<>> ELSE parts[1] \o concat(Tail(parts))

\* what llm.invoke(prompt).content can be
Answers == {concat(ps) : ps \in SeqsUpTo(AnswerPieces, MaxPieces)}

(***************************************************************************)
(* web_search_tool (agents/web_search_agent.py).                           *)
(***************************************************************************)
\* the formatted results kept from results_list[:max_results * 2]
RECURSIVE formatted_results(_, _, _)
formatted_results(query_terms, items, acc) ==
    IF items = <<>> \/ Len(acc) >= 3 THEN acc
    ELSE LET result == items[1]
             combined_text == lower(result.title \o <<" ">> \o result.snippet)
             matches == Cardinality({i \in DOMAIN query_terms :
                                        contains(query_terms[i], combined_text)})
             relevant == matches * 10 > 2 * Len(query_terms)
             formatted == <<"*","*">> \o result.title \o <<"*","*","\n">> \o result.snippet
                          \o (IF result.link # <<>>
                              THEN <<"\n","S","o","u","r","c","e",":"," ">> \o result.link ELSE <<>>)
         IN  formatted_results(query_terms, Tail(items),
                               IF relevant THEN Append(acc, formatted) ELSE acc)

web_search_unavailable(msg) ==
    <<"W","e","b"," ","s","e","a","r","c","h"," ","t","e","m","p","o","r","a","r","i","l","y"," ","u","n","a","v","a","i","l","a","b","l","e","."," ","E","r","r","o","r",":"," ">> \o msg

web_search_tool(query, outcome) ==
    LET query_terms == split(lower(query))
        results_list == SubSeq(outcome.items, 1,
                               IF Len(outcome.items) < 6 THEN Len(outcome.items) ELSE 6)
        kept == formatted_results(query_terms, results_list, <<>>)
    IN  CASE outcome.kind = "raise" -> web_search_unavailable(outcome.text)
          [] outcome.kind = "text" -> preview(outcome.text, 2000)
          [] outcome.kind = "list" ->
                IF results_list # <<>> /\ query_terms = <<>>
                THEN web_search_unavailable(<<"d","i","v","i","s","i","o","n"," ","b","y"," ","z","e","r","o">>)
                ELSE IF kept = <<>>
                THEN <<"N","o"," ","r","e","l","e","v","a","n","t"," ","w","e","b"," ","s","e","a","r","c","h"," ","r","e","s","u","l","t","s"," ","f","o","u","n","d"," ","f","o","r"," ","t","h","i","s"," ","q","u","e","r","y",".">>
                ELSE join(<<"\n","\n">>, kept)

(***************************************************************************)
(* query_rag (rag/query_engine.py): one execution.                         *)
(***************************************************************************)
VARIABLES
    pc,                  \* where the execution of query_rag stands
    user_input,          \* the query
    drive_client,        \* "real" or "mock": what get_drive_client returned
    is_external,
    rag_docs,            \* chunks returned by the document index
    relevant_docs,       \* <<doc, relevance>> pairs kept
    pdf_relevance_score,
    citations,           \* citations in creation order
    use_web_search,
    use_drive_search,
    raw_drive_results,   \* files returned by the cloud file client
    web_results,         \* the block web_search_tool returned
    drive_results,       \* cloud files kept
    web_context,
    calls,               \* collaborators invoked so far, in order
    raised,              \* collaborators whose call raised
    result               \* the value query_rag returns

\* calculate_text_relevance called on its own
VARIABLES
    score_pc,            \* "idle", "ready" or "scored"
    score_terms,         \* the words the query is made of
    score_query,
    score_text,
    score_value          \* the value returned

\* the streaming STT WebSocket endpoint (stt/simple_websocket.py)
VARIABLES
    ws_pc,               \* where websocket_endpoint stands, per connection
    ws_client_id,        \* the client_id of the connection's URL
    ws_open,             \* whether the client still holds the socket open
    connections,         \* streaming_stt.connections: client_id -> socket
    stt_instances,       \* streaming_stt.stt_instances: client_id -> instance
    ws_sent,             \* messages the server sent on each socket, in order
    ws_pings,            \* timestamps of the pings read from each socket
    ws_reads,            \* messages read from each socket so far
    ws_tasks             \* transcription sends created and not yet run

\* cleanup_file_safely (main.py) called on one temporary file
VARIABLES
    cl_pc,               \* "idle", "loop", "returned", "broken" or "exhausted"
    cl_attempt,          \* iterations of the for loop started so far
    cl_log,              \* what each iteration did, in order
    cl_registered        \* whether the exit-time cleanup is registered

\* two executions of query_rag at the same time
VARIABLES
    execs                \* the local variables of each execution

rag_vars == << pc, user_input, drive_client, is_external, rag_docs, relevant_docs,
               pdf_relevance_score, citations, use_web_search, use_drive_search,
               raw_drive_results, drive_results, web_results, web_context, calls, raised,
               result >>

scorer_vars == << score_pc, score_terms, score_query, score_text, score_value >>

stt_vars == << ws_pc, ws_client_id, ws_open, connections, stt_instances, ws_sent,
               ws_pings, ws_reads, ws_tasks >>

cleanup_vars == << cl_pc, cl_attempt, cl_log, cl_registered >>

pair_vars == << execs >>

vars == << rag_vars, scorer_vars, stt_vars, cleanup_vars, pair_vars >>

\* the connections a run of the server sees, and the client ids of their URLs
Conns == {"c1", "c2"}

ClientIds == {"a", "b"}

\* no entry under a key of a registry
None == "None"

\* the scorer is not called on its own
ScorerIdle ==
    /\ score_pc = "idle"
    /\ score_terms = <<>>
    /\ score_query = <<>>
    /\ score_text = <<>>
    /\ score_value = Zero

\* the server has started (line 103) and no connection was made yet
SttInit ==
    /\ ws_pc = [c \in Conns |-> "idle"]
    /\ ws_client_id = [c \in Conns |-> None]
    /\ ws_open = [c \in Conns |-> FALSE]
    /\ connections = [id \in ClientIds |-> None]
    /\ stt_instances = [id \in ClientIds |-> None]
    /\ ws_sent = [c \in Conns |-> <<>>]
    /\ ws_pings = [c \in Conns |-> <<>>]
    /\ ws_reads = [c \in Conns |-> 0]
    /\ ws_tasks = [c \in Conns |-> 0]

\* citation_num = len(citations) + 1
citation_num_zero_based(cits) == Len(cits)

citation_num(cits) == Len(cits) + 1

\* f"[{citation_num}]"
label(n) == <<"[">> \o str_of_int(n) \o <<"]">>

pdf_citation(cits, doc, relevance) ==
    [citation |-> label(citation_num(cits)),
     page |-> doc.page,
     image |-> doc.image_path,
     type |-> "pdf",
     url |-> "",
     name |-> <<>>,
     content |-> preview(doc.page_content, 200),
     relevance |-> relevance]

drive_citation(cits, file, relevance) ==
    [citation |-> label(citation_num(cits)),
     page |-> 0,
     image |-> "None",
     type |-> "google_drive",
     url |-> file.url,
     name |-> file.name,
     content |-> preview(file.content, 200),
     relevance |-> relevance]

web_kept_at_least(block, web_relevance) ==
    block # <<>> /\ ~FracLt(web_relevance, 1, 10)

\* lines 189-191: the block is not empty and its relevance is above 0.1
web_kept(block, web_relevance) ==
    block # <<>> /\ FracGt(web_relevance, 1, 10)

web_citation(cits, block, relevance) ==
    [citation |-> label(citation_num(cits)),
     page |-> 0,
     image |-> "None",
     type |-> "web",
     url |-> "https://duckduckgo.com",
     name |-> <<>>,
     content |-> preview(block, 200),
     relevance |-> relevance]

\* relevance >= 0.2
RECURSIVE filter_docs_at_least(_, _)
filter_docs_at_least(query, docs) ==
    IF docs = <<>> THEN <<>>
    ELSE LET relevance == calculate_text_relevance(query, docs[1].page_content)
             rest == filter_docs_at_least(query, Tail(docs))
         IN  IF ~FracLt(relevance, 2, 10)
             THEN << <<docs[1], relevance>> >> \o rest
             ELSE rest

\* lines 103-107: the chunks with relevance > 0.2, each with its relevance
RECURSIVE filter_docs(_, _)
filter_docs(query, docs) ==
    IF docs = <<>> THEN <<>>
    ELSE LET relevance == calculate_text_relevance(query, docs[1].page_content)
             rest == filter_docs(query, Tail(docs))
         IN  IF FracGt(relevance, 2, 10)
             THEN << <<docs[1], relevance>> >> \o rest
             ELSE rest

RECURSIVE sum_relevance(_)
sum_relevance(pairs) ==
    IF pairs = <<>> THEN Zero
    ELSE FracAdd(pairs[1][2], sum_relevance(Tail(pairs)))

\* line 110
normalize_score(pairs) ==
    IF pairs # <<>> THEN FracDivInt(sum_relevance(pairs), Len(pairs)) ELSE Zero

\* lines 116-126
RECURSIVE add_pdf_citations(_, _)
add_pdf_citations(cits, pairs) ==
    IF pairs = <<>> THEN cits
    ELSE add_pdf_citations(Append(cits, pdf_citation(cits, pairs[1][1], pairs[1][2])),
                           Tail(pairs))

\* lines 158-176: the files with relevance > 0.1 of name + " " + content
drive_relevance(query, file) ==
    calculate_text_relevance(query, file.name \o <<" ">> \o file.content)

\* relevance >= 0.1
RECURSIVE filter_drive_at_least(_, _)
filter_drive_at_least(query, raw) ==
    IF raw = <<>> THEN <<>>
    ELSE LET rest == filter_drive_at_least(query, Tail(raw))
         IN  IF ~FracLt(drive_relevance(query, raw[1]), 1, 10)
             THEN <<raw[1]>> \o rest
             ELSE rest

RECURSIVE filter_drive(_, _)
filter_drive(query, raw) ==
    IF raw = <<>> THEN <<>>
    ELSE LET rest == filter_drive(query, Tail(raw))
         IN  IF FracGt(drive_relevance(query, raw[1]), 1, 10)
             THEN <<raw[1]>> \o rest
             ELSE rest

\* the cloud file citations put in front of the list
RECURSIVE add_drive_citations_in_front(_, _, _)
add_drive_citations_in_front(cits, query, kept) ==
    IF kept = <<>> THEN cits
    ELSE add_drive_citations_in_front(
             <<drive_citation(cits, kept[1], drive_relevance(query, kept[1]))>> \o cits,
             query, Tail(kept))

RECURSIVE add_drive_citations(_, _, _)
add_drive_citations(cits, query, kept) ==
    IF kept = <<>> THEN cits
    ELSE add_drive_citations(
             Append(cits, drive_citation(cits, kept[1], drive_relevance(query, kept[1]))),
             query, Tail(kept))

select_sources_union(query, score) ==
    LET q == lower(query)
        low == FracLt(score, 3, 10)
    IN  << low \/ any_in(recency_words, q) \/ any_in(realtime_words, q),
           low \/ any_in(recency_words, q) \/ any_in(drive_words, q) >>

select_sources_low_web_only(query, score) ==
    LET q == lower(query)
    IN  IF FracLt(score, 3, 10) THEN <<TRUE, FALSE>>
        ELSE IF any_in(recency_words, q) THEN <<TRUE, TRUE>>
        ELSE IF any_in(realtime_words, q) THEN <<TRUE, FALSE>>
        ELSE IF any_in(drive_words, q) THEN <<FALSE, TRUE>>
        ELSE <<FALSE, FALSE>>

select_sources_web_by_default(query, score) ==
    LET q == lower(query)
    IN  IF FracLt(score, 3, 10) THEN <<TRUE, TRUE>>
        ELSE IF any_in(recency_words, q) THEN <<TRUE, TRUE>>
        ELSE IF any_in(realtime_words, q) THEN <<TRUE, FALSE>>
        ELSE IF any_in(drive_words, q) THEN <<FALSE, TRUE>>
        ELSE <<TRUE, FALSE>>

select_sources_realtime_first(query, score) ==
    LET q == lower(query)
    IN  IF FracLt(score, 3, 10) THEN <<TRUE, TRUE>>
        ELSE IF any_in(realtime_words, q) THEN <<TRUE, FALSE>>
        ELSE IF any_in(recency_words, q) THEN <<TRUE, TRUE>>
        ELSE IF any_in(drive_words, q) THEN <<FALSE, TRUE>>
        ELSE <<FALSE, FALSE>>

\* lines 136-149: <<use_web_search, use_drive_search>>
select_sources(query, score) ==
    LET q == lower(query)
    IN  IF FracLt(score, 3, 10) THEN <<TRUE, TRUE>>
        ELSE IF any_in(recency_words, q) THEN <<TRUE, TRUE>>
        ELSE IF any_in(realtime_words, q) THEN <<TRUE, FALSE>>
        ELSE IF any_in(drive_words, q) THEN <<FALSE, TRUE>>
        ELSE <<FALSE, FALSE>>

(***************************************************************************)
(* Citation validation, lines 279-296.                                     *)
(***************************************************************************)
\* the length of the run of decimal digits that starts text[i]
RECURSIVE digit_run(_, _)
digit_run(text, i) ==
    IF i <= Len(text) /\ (\E d \in DOMAIN Digits : Digits[d] = text[i])
    THEN 1 + digit_run(text, i + 1)
    ELSE 0

\* the places where a match of \[(\d+)\] starts; two matches never overlap
match_starts(text) ==
    {i \in 1..Len(text) :
        LET run == digit_run(text, i + 1)
        IN  /\ text[i] = "["
            /\ run >= 1
            /\ i + run + 1 <= Len(text)
            /\ text[i + run + 1] = "]"}

\* re.findall(r'\[(\d+)\]', text): the digit groups, left to right
findall(text) ==
    LET starts == match_starts(text)
        nth(k) == CHOOSE i \in starts : Cardinality({j \in starts : j < i}) = k - 1
    IN  [k \in 1..Cardinality(starts) |->
            SubSeq(text, nth(k) + 1, nth(k) + digit_run(text, nth(k) + 1))]

\* Python's `x in list` for dicts: some element equal in every key
is_in_same_content(x, list) ==
    \E i \in DOMAIN list : list[i].type = x.type /\ list[i].content = x.content

is_in(x, list) == \E i \in DOMAIN list : list[i] = x

add_mentioned_ignored(validated, mentioned, cits) == validated

\* only idx < len(citations) is tested: citations[-1] is the last citation
RECURSIVE add_mentioned_no_lower_bound(_, _, _)
add_mentioned_no_lower_bound(validated, mentioned, cits) ==
    IF mentioned = <<>> THEN validated
    ELSE LET idx == int_of_str(mentioned[1]) - 1
             at == IF idx < 0 THEN Len(cits) + idx + 1 ELSE idx + 1
             next == IF idx < Len(cits) /\ at >= 1
                        /\ ~is_in(cits[at], validated)
                     THEN Append(validated, cits[at])
                     ELSE validated
         IN  add_mentioned_no_lower_bound(next, Tail(mentioned), cits)

\* lines 284-291
RECURSIVE add_mentioned(_, _, _)
add_mentioned(validated, mentioned, cits) ==
    IF mentioned = <<>> THEN validated
    ELSE LET idx == int_of_str(mentioned[1]) - 1
             next == IF 0 <= idx /\ idx < Len(cits)
                        /\ ~is_in(cits[idx + 1], validated)
                     THEN Append(validated, cits[idx + 1])
                     ELSE validated
         IN  add_mentioned(next, Tail(mentioned), cits)

\* lines 294-296
RECURSIVE add_remaining(_, _)
add_remaining(validated, cits) ==
    IF cits = <<>> THEN validated
    ELSE add_remaining(IF is_in(cits[1], validated) THEN validated
                       ELSE Append(validated, cits[1]),
                       Tail(cits))

validate_citations(answer_text, cits) ==
    add_remaining(add_mentioned(<<>>, findall(answer_text), cits), cits)

\* line 277
fallback_answer(cits) ==
    <<"I"," ","f","o","u","n","d"," ","r","e","l","e","v","a","n","t"," ","i","n","f","o","r","m","a","t","i","o","n"," ","f","r","o","m"," ">> \o str_of_int(Len(cits))
    \o <<" ","s","o","u","r","c","e","s",","," ","b","u","t"," ","c","o","u","l","d","n","'","t"," ","g","e","n","e","r","a","t","e"," ","a"," ","c","o","m","p","l","e","t","e"," ","r","e","s","p","o","n","s","e","."," ","P","l","e","a","s","e"," ","t","r","y"," ","r","e","p","h","r","a","s","i","n","g"," ","y","o","u","r"," ","q","u","e","s","t","i","o","n",".">>

NoResult ==
    [response |-> <<>>, citations |-> <<>>,
     sources_used |-> [pdf_documents |-> 0, google_drive_docs |-> 0, web_search |-> 0],
     relevance_info |-> [pdf_relevance_score |-> Zero, total_pdf_chunks_found |-> 0,
                         relevant_pdf_chunks |-> 0, relevant_drive_docs |-> 0,
                         web_search_used |-> FALSE]]

\* lines 298-313: the value returned, from the local variables
build_result(answer_text, cits, docs, kept, drive, web, score) ==
    [response |-> answer_text,
     citations |-> validate_citations(answer_text, cits),
     sources_used |-> [pdf_documents |-> Len(kept),
                       google_drive_docs |-> Len(drive),
                       web_search |-> IF web # <<>> THEN 1 ELSE 0],
     relevance_info |-> [pdf_relevance_score |-> score,
                         total_pdf_chunks_found |-> Len(docs),
                         relevant_pdf_chunks |-> Len(kept),
                         relevant_drive_docs |-> Len(drive),
                         web_search_used |-> web # <<>>]]

\* the counts are those of the raw adapter results
make_result_raw_counts(answer_text) ==
    [response |-> answer_text,
     citations |-> validate_citations(answer_text, citations),
     sources_used |-> [pdf_documents |-> Len(rag_docs),
                       google_drive_docs |-> Len(raw_drive_results),
                       web_search |-> IF web_context # <<>> THEN 1 ELSE 0],
     relevance_info |-> [pdf_relevance_score |-> pdf_relevance_score,
                         total_pdf_chunks_found |-> Len(rag_docs),
                         relevant_pdf_chunks |-> Len(relevant_docs),
                         relevant_drive_docs |-> Len(drive_results),
                         web_search_used |-> web_context # <<>>]]

\* lines 298-313
make_result(answer_text) ==
    build_result(answer_text, citations, rag_docs, relevant_docs, drive_results,
                 web_context, pdf_relevance_score)

(***************************************************************************)
(* The steps of query_rag, one per call of a collaborator.                 *)
(***************************************************************************)
\* cleanup_file_safely is not running
CleanupIdle ==
    /\ cl_pc = "idle"
    /\ cl_attempt = 0
    /\ cl_log = <<>>
    /\ cl_registered = FALSE

\* the executions of query_rag that run at the same time
Execs == {"q1", "q2"}

\* one execution before line 83: where it stands, the query_rag arguments
\* and collaborator answers it got, the value it returned, and the slots
\* of the local variables of lines 83-185
NoExec ==
    [pc |-> "idle", query |-> <<>>, index_answer |-> <<>>, drive_answer |-> <<>>,
     web_answer |-> <<>>, llm_answer |-> <<>>, result |-> NoResult,
     overlapped |-> FALSE,
     user_input |-> <<>>, is_external |-> FALSE, rag_docs |-> <<>>,
     relevant_docs |-> <<>>, pdf_relevance_score |-> Zero, citations |-> <<>>,
     use_web_search |-> FALSE, use_drive_search |-> FALSE,
     drive_results |-> <<>>, web_context |-> <<>>]

\* no two executions are running together
PairIdle == execs = [e \in Execs |-> NoExec]

Init ==
    /\ pc = "start"
    /\ user_input \in Queries
    /\ drive_client = "none"
    /\ is_external = FALSE
    /\ rag_docs = <<>>
    /\ relevant_docs = <<>>
    /\ pdf_relevance_score = Zero
    /\ citations = <<>>
    /\ use_web_search = FALSE
    /\ use_drive_search = FALSE
    /\ raw_drive_results = <<>>
    /\ web_results = <<>>
    /\ drive_results = <<>>
    /\ web_context = <<>>
    /\ calls = <<>>
    /\ raised = {}
    /\ result = NoResult
    /\ ScorerIdle
    /\ SttInit
    /\ CleanupIdle
    /\ PairIdle

\* lines 83-95: the drive client is the real one or, without credentials,
\* the mock; the query is classified
Begin ==
    /\ pc = "start"
    /\ \E client \in {"real", "mock"} : drive_client' = client
    /\ is_external' = is_external_query(user_input)
    /\ pc' = "pdf"
    /\ UNCHANGED << scorer_vars, stt_vars, cleanup_vars, pair_vars, raw_drive_results, web_results, raised, user_input, rag_docs, relevant_docs, pdf_relevance_score,
                    citations, use_web_search, use_drive_search, drive_results,
                    web_context, calls, result >>

\* line 98: the document index is searched only for a query not external
pdf_search_skipped_always == FALSE

pdf_search_skipped == is_external

\* lines 98-126, the document index answers
PdfSearch ==
    /\ pc = "pdf"
    /\ ~pdf_search_skipped
    /\ \E docs \in IndexResults :
          LET kept == filter_docs(user_input, docs)
          IN  /\ rag_docs' = docs
              /\ relevant_docs' = kept
              /\ pdf_relevance_score' = normalize_score(kept)
              /\ citations' = add_pdf_citations(citations, kept)
    /\ calls' = Append(calls, "document_index")
    /\ pc' = "select"
    /\ UNCHANGED << scorer_vars, stt_vars, cleanup_vars, pair_vars, raw_drive_results, web_results, raised, user_input, drive_client, is_external, use_web_search,
                    use_drive_search, drive_results, web_context, result >>

\* line 100 raises: nothing in query_rag catches it
PdfSearchRaises ==
    /\ pc = "pdf"
    /\ ~pdf_search_skipped
    /\ calls' = Append(calls, "document_index")
    /\ raised' = raised \cup {"document_index"}
    /\ pc' = "raised"
    /\ UNCHANGED << scorer_vars, stt_vars, cleanup_vars, pair_vars, raw_drive_results, web_results, user_input, drive_client, is_external, rag_docs, relevant_docs,
                    pdf_relevance_score, citations, use_web_search,
                    use_drive_search, drive_results, web_context, result >>

\* lines 127-129
PdfSkip ==
    /\ pc = "pdf"
    /\ pdf_search_skipped
    /\ pdf_relevance_score' = Zero
    /\ pc' = "select"
    /\ UNCHANGED << scorer_vars, stt_vars, cleanup_vars, pair_vars, raw_drive_results, web_results, raised, user_input, drive_client, is_external, rag_docs, relevant_docs,
                    citations, use_web_search, use_drive_search, drive_results,
                    web_context, calls, result >>

\* lines 131-149
SelectSources ==
    /\ pc = "select"
    /\ use_web_search' = select_sources(user_input, pdf_relevance_score)[1]
    /\ use_drive_search' = select_sources(user_input, pdf_relevance_score)[2]
    /\ pc' = "drive"
    /\ UNCHANGED << scorer_vars, stt_vars, cleanup_vars, pair_vars, raw_drive_results, web_results, raised, user_input, drive_client, is_external, rag_docs, relevant_docs,
                    pdf_relevance_score, citations, drive_results, web_context,
                    calls, result >>

\* lines 153-177, search_and_retrieve answers
DriveSearch ==
    /\ pc = "drive"
    /\ use_drive_search
    /\ \E raw \in
            IF drive_client = "mock" THEN {MockDriveResults(user_input)}
            ELSE RealDriveResults :
          LET kept == filter_drive(user_input, raw)
          IN  /\ raw_drive_results' = raw
              /\ drive_results' = kept
              /\ citations' = add_drive_citations(citations, user_input, kept)
    /\ calls' = Append(calls, "cloud_file")
    /\ pc' = "web"
    /\ UNCHANGED << scorer_vars, stt_vars, cleanup_vars, pair_vars, web_results, raised, user_input, drive_client, is_external, rag_docs, relevant_docs,
                    pdf_relevance_score, use_web_search, use_drive_search,
                    web_context, result >>

\* lines 178-179: the failure is printed and query_rag goes on to step 4
after_drive_failure_propagates == "raised"

after_drive_failure == "web"

\* line 156 raises, lines 178-179 catch it
DriveSearchRaises ==
    /\ pc = "drive"
    /\ use_drive_search
    /\ drive_client = "real"
    /\ calls' = Append(calls, "cloud_file")
    /\ raised' = raised \cup {"cloud_file"}
    /\ pc' = after_drive_failure
    /\ UNCHANGED << scorer_vars, stt_vars, cleanup_vars, pair_vars, raw_drive_results, web_results, user_input, drive_client, is_external, rag_docs, relevant_docs,
                    pdf_relevance_score, citations, use_web_search,
                    use_drive_search, drive_results, web_context, result >>

DriveSkip ==
    /\ pc = "drive"
    /\ ~use_drive_search
    /\ pc' = "web"
    /\ UNCHANGED << scorer_vars, stt_vars, cleanup_vars, pair_vars, raw_drive_results, web_results, raised, user_input, drive_client, is_external, rag_docs, relevant_docs,
                    pdf_relevance_score, citations, use_web_search,
                    use_drive_search, drive_results, web_context, calls, result >>

\* lines 183-209: web_search_tool catches whatever its backend raises and
\* always returns a string
WebSearch ==
    /\ pc = "web"
    /\ use_web_search
    /\ \E outcome \in BackendOutcomes :
          LET block == web_search_tool(user_input, outcome)
              web_relevance == calculate_text_relevance(user_input, block)
              kept == web_kept(block, web_relevance)
          IN  /\ web_results' = block
              /\ web_context' = IF kept THEN block ELSE <<>>
              /\ citations' = IF kept
                              THEN Append(citations,
                                          web_citation(citations, block, web_relevance))
                              ELSE citations
              /\ raised' = IF outcome.kind = "raise"
                            THEN raised \cup {"web_search"} ELSE raised
    /\ calls' = Append(calls, "web_search")
    /\ pc' = "llm"
    /\ UNCHANGED << scorer_vars, stt_vars, cleanup_vars, pair_vars, raw_drive_results, user_input, drive_client, is_external, rag_docs, relevant_docs,
                    pdf_relevance_score, use_web_search, use_drive_search,
                    drive_results, result >>

WebSkip ==
    /\ pc = "web"
    /\ ~use_web_search
    /\ pc' = "llm"
    /\ UNCHANGED << scorer_vars, stt_vars, cleanup_vars, pair_vars, raw_drive_results, web_results, raised, user_input, drive_client, is_external, rag_docs, relevant_docs,
                    pdf_relevance_score, citations, use_web_search,
                    use_drive_search, drive_results, web_context, calls, result >>

\* lines 272-313, the model answers
Generate ==
    /\ pc = "llm"
    /\ \E answer_text \in Answers : result' = make_result(answer_text)
    /\ calls' = Append(calls, "llm")
    /\ pc' = "done"
    /\ UNCHANGED << scorer_vars, stt_vars, cleanup_vars, pair_vars, raw_drive_results, web_results, raised, user_input, drive_client, is_external, rag_docs, relevant_docs,
                    pdf_relevance_score, citations, use_web_search,
                    use_drive_search, drive_results, web_context >>

after_llm_failure_propagates == "raised"

\* lines 275-277: the failure is printed and query_rag goes on to validation
after_llm_failure == "done"

\* line 273 raises, lines 275-277 substitute the fallback answer
GenerateRaises ==
    /\ pc = "llm"
    /\ result' = make_result(fallback_answer(citations))
    /\ calls' = Append(calls, "llm")
    /\ raised' = raised \cup {"llm"}
    /\ pc' = after_llm_failure
    /\ UNCHANGED << scorer_vars, stt_vars, cleanup_vars, pair_vars, raw_drive_results, web_results, user_input, drive_client, is_external, rag_docs, relevant_docs,
                    pdf_relevance_score, citations, use_web_search,
                    use_drive_search, drive_results, web_context >>

Next ==
    \/ Begin
    \/ PdfSearch
    \/ PdfSearchRaises
    \/ PdfSkip
    \/ SelectSources
    \/ DriveSearch
    \/ DriveSearchRaises
    \/ DriveSkip
    \/ WebSearch
    \/ WebSkip
    \/ Generate
    \/ GenerateRaises

Spec == Init /\ [][Next]_vars

\* query_rag up to the call of the generative model: the evidence gathering
NextGather ==
    \/ Begin
    \/ PdfSearch
    \/ PdfSearchRaises
    \/ PdfSkip
    \/ SelectSources
    \/ DriveSearch
    \/ DriveSearchRaises
    \/ DriveSkip
    \/ WebSearch
    \/ WebSkip

SpecGather == Init /\ [][NextGather]_vars

(***************************************************************************)
(* The classifier alone, on queries made of a few words.                   *)
(***************************************************************************)
ClassifierVocab ==
    { <<"d","o","c","u","m","e","n","t">>, <<"w","e","a","t","h","e","r">>, <<"P","D","F">>, <<"c","o","s","t"," ","o","f">>, <<"h","e","l","l","o">>, <<"T","o","d","a","y">>,
      <<"s","t","o","c","k">>, <<"w","h","a","t"," ","h","a","p","p","e","n","e","d">> }

\* the queries of debug_external_query.py
DebugQueries ==
    { <<"W","h","a","t"," ","i","s"," ","t","h","e"," ","w","e","a","t","h","e","r"," ","i","n"," ","T","o","k","y","o"," ","t","o","d","a","y","?">>,
      <<"W","h","a","t"," ","i","s"," ","t","h","e"," ","c","u","r","r","e","n","t"," ","B","i","t","c","o","i","n"," ","p","r","i","c","e"," ","i","n"," ","U","S","D","?">>,
      <<"W","h","a","t"," ","c","o","n","t","e","n","t"," ","i","s"," ","i","n"," ","t","h","e"," ","u","p","l","o","a","d","e","d"," ","d","o","c","u","m","e","n","t","?">>,
      <<"T","e","l","l"," ","m","e"," ","a","b","o","u","t"," ","a","r","t","i","f","i","c","i","a","l"," ","i","n","t","e","l","l","i","g","e","n","c","e">>,
      <<"C","u","r","r","e","n","t"," ","t","e","m","p","e","r","a","t","u","r","e"," ","i","n"," ","L","o","n","d","o","n">>,
      <<"S","h","o","w"," ","m","e"," ","t","h","e"," ","P","D","F"," ","c","o","n","t","e","n","t">>,
      <<"L","a","t","e","s","t"," ","n","e","w","s"," ","a","b","o","u","t"," ","t","e","c","h","n","o","l","o","g","y">>,
      <<"W","h","a","t"," ","d","o","e","s"," ","t","h","i","s"," ","d","o","c","u","m","e","n","t"," ","s","a","y","?">> }

ClassifierQueries ==
    {join(<<" ">>, ws) : ws \in SeqsUpTo(ClassifierVocab, MaxWords)} \cup DebugQueries

InitClassifier ==
    /\ pc = "start"
    /\ user_input \in ClassifierQueries
    /\ drive_client = "none"
    /\ is_external = FALSE
    /\ rag_docs = <<>>
    /\ relevant_docs = <<>>
    /\ pdf_relevance_score = Zero
    /\ citations = <<>>
    /\ use_web_search = FALSE
    /\ use_drive_search = FALSE
    /\ raw_drive_results = <<>>
    /\ web_results = <<>>
    /\ drive_results = <<>>
    /\ web_context = <<>>
    /\ calls = <<>>
    /\ raised = {}
    /\ result = NoResult
    /\ ScorerIdle
    /\ SttInit
    /\ CleanupIdle
    /\ PairIdle

NextClassifier == Begin

SpecClassifier == InitClassifier /\ [][NextClassifier]_vars

(***************************************************************************)
(* The relevance scorer alone.                                             *)
(***************************************************************************)
\* query_rag is not running
RagIdle ==
    /\ pc = "idle"
    /\ user_input = <<>>
    /\ drive_client = "none"
    /\ is_external = FALSE
    /\ rag_docs = <<>>
    /\ relevant_docs = <<>>
    /\ pdf_relevance_score = Zero
    /\ citations = <<>>
    /\ use_web_search = FALSE
    /\ use_drive_search = FALSE
    /\ raw_drive_results = <<>>
    /\ web_results = <<>>
    /\ drive_results = <<>>
    /\ web_context = <<>>
    /\ calls = <<>>
    /\ raised = {}
    /\ result = NoResult

ScorerVocab == { <<"n","e","w">>, <<"R","e","v","e","n","u","e">>, <<"q","3">>, <<"z","e","b","r","a">> }

ScorerSeparators == { <<" ">>, <<"	","\n">> }

ScorerPadding == { <<>>, <<" ">> }

ScorerTexts == { <<>>, <<"N","E","W","S",":"," ","r","e","v","e","n","u","e"," ","u","p">>, <<"Q","3"," ","r","e","p","o","r","t">> }

InitScorer ==
    /\ score_pc = "ready"
    /\ score_terms \in SeqsUpTo(ScorerVocab, MaxTerms)
    /\ \E sep \in ScorerSeparators, pad \in ScorerPadding :
          score_query = pad \o join(sep, score_terms) \o pad
    /\ score_text \in ScorerTexts
    /\ score_value = Zero
    /\ RagIdle
    /\ SttInit
    /\ CleanupIdle
    /\ PairIdle

Score ==
    /\ score_pc = "ready"
    /\ score_value' = calculate_text_relevance(score_query, score_text)
    /\ score_pc' = "scored"
    /\ UNCHANGED << rag_vars, stt_vars, cleanup_vars, pair_vars, score_terms, score_query, score_text >>

NextScorer == Score

SpecScorer == InitScorer /\ [][NextScorer]_vars

(***************************************************************************)
(* The streaming STT WebSocket endpoint (stt/simple_websocket.py).         *)
(***************************************************************************)
Timestamps == {"t1", "t2"}

\* a message as JSON: its type and, for ping and pong, data.timestamp
Msg(type, timestamp) == [type |-> type, timestamp |-> timestamp]

\* what a client can send as one JSON object.  A ping carries a timestamp,
\* no data at all (None), or data that is not a mapping ("bad"); an
\* audio_chunk carries no audio ("none"), text that does not decode
\* ("undecodable"), or audio with or without speech in it.
ClientMessages ==
    {[type |-> "ping", data |-> d] : d \in Timestamps \cup {None, "bad"}}
    \cup {[type |-> "audio_chunk", data |-> d] :
             d \in {"none", "undecodable", "silence", "speech"}}
    \cup {[type |-> "other", data |-> None]}

\* websocket.send_json(msg) on a socket: raises when the client is gone
send_json(sent, target, msg) ==
    IF ws_open[target]
    THEN [ok |-> TRUE, sent |-> [sent EXCEPT ![target] = Append(@, msg)]]
    ELSE [ok |-> FALSE, sent |-> sent]

\* the handler of lines 90-99: an error message to the socket registered
\* under client_id, if any; a failure of that send is swallowed
handle_message_except(sent, client_id) ==
    IF connections[client_id] # None
    THEN send_json(sent, connections[client_id], Msg("error", None)).sent
    ELSE sent

\* SimpleStreamingSTT.handle_message: the messages sent and the tasks created
handle_message(client_id, message) ==
    LET websocket == connections[client_id]
        stt == stt_instances[client_id]
        same == [sent |-> ws_sent, tasks |-> ws_tasks]
    IN  IF websocket = None \/ stt = None THEN same
        ELSE IF message.type = "audio_chunk"
        THEN IF message.data = "none" THEN same
             ELSE IF message.data = "undecodable"
             THEN LET s == send_json(ws_sent, websocket, Msg("error", None))
                  IN  [sent |-> IF s.ok THEN s.sent
                                ELSE handle_message_except(ws_sent, client_id),
                       tasks |-> ws_tasks]
             ELSE IF message.data = "speech"
             THEN [sent |-> ws_sent,
                   tasks |-> [ws_tasks EXCEPT ![websocket] = @ + 1]]
             ELSE same
        ELSE IF message.type = "ping"
        THEN IF message.data = "bad"
             THEN [sent |-> handle_message_except(ws_sent, client_id),
                   tasks |-> ws_tasks]
             ELSE LET s == send_json(ws_sent, websocket, Msg("pong", message.data))
                  IN  [sent |-> IF s.ok THEN s.sent
                                ELSE handle_message_except(ws_sent, client_id),
                       tasks |-> ws_tasks]
        ELSE same

\* SimpleStreamingSTT.disconnect on one registry: the entry under client_id
\* goes, whichever connection made it
disconnect(registry, client_id) == [registry EXCEPT ![client_id] = None]

\* websocket_endpoint, line 108: connect accepts, registers the socket and
\* a new STT instance under client_id and sends the status message; the
\* client may be gone by then, and the failure leaves websocket_endpoint
Connect(c, client_id) ==
    /\ ws_pc[c] = "idle"
    /\ ws_client_id' = [ws_client_id EXCEPT ![c] = client_id]
    /\ connections' = [connections EXCEPT ![client_id] = c]
    /\ stt_instances' = [stt_instances EXCEPT ![client_id] = c]
    /\ \E alive \in BOOLEAN :
          /\ ws_open' = [ws_open EXCEPT ![c] = alive]
          /\ IF alive
             THEN /\ ws_sent' = [ws_sent EXCEPT ![c] = Append(@, Msg("status", None))]
                  /\ ws_pc' = [ws_pc EXCEPT ![c] = "receiving"]
             ELSE /\ ws_sent' = ws_sent
                  /\ ws_pc' = [ws_pc EXCEPT ![c] = "failed"]
    /\ UNCHANGED << rag_vars, scorer_vars, cleanup_vars, pair_vars, ws_pings, ws_reads, ws_tasks >>

\* the client closes its side of the socket
ClientCloses(c) ==
    /\ ws_pc[c] = "receiving"
    /\ ws_open[c]
    /\ ws_open' = [ws_open EXCEPT ![c] = FALSE]
    /\ UNCHANGED << rag_vars, scorer_vars, cleanup_vars, pair_vars, ws_pc, ws_client_id, connections,
                    stt_instances, ws_sent, ws_pings, ws_reads, ws_tasks >>

\* the number of messages read on the connections of S
RECURSIVE reads_so_far(_)
reads_so_far(S) ==
    IF S = {} THEN 0
    ELSE LET c == CHOOSE x \in S : TRUE
         IN  ws_reads[c] + reads_so_far(S \ {c})

\* lines 112-113: one message is read and handled
HandleMessage(c, message) ==
    /\ ws_pc[c] = "receiving"
    /\ ws_open[c]
    /\ reads_so_far(Conns) < MaxMessages
    /\ ws_reads' = [ws_reads EXCEPT ![c] = @ + 1]
    /\ ws_pings' = IF message.type = "ping" /\ message.data # "bad"
                   THEN [ws_pings EXCEPT ![c] = Append(@, message.data)]
                   ELSE ws_pings
    /\ LET after == handle_message(ws_client_id[c], message)
       IN  /\ ws_sent' = after.sent
           /\ ws_tasks' = after.tasks
    /\ UNCHANGED << rag_vars, scorer_vars, cleanup_vars, pair_vars, ws_pc, ws_client_id, ws_open,
                    connections, stt_instances >>

\* a task created by the transcription callback (line 72) runs
RunTask(c) ==
    /\ ws_tasks[c] > 0
    /\ ws_tasks' = [ws_tasks EXCEPT ![c] = @ - 1]
    /\ ws_sent' = send_json(ws_sent, c, Msg("transcription", None)).sent
    /\ UNCHANGED << rag_vars, scorer_vars, cleanup_vars, pair_vars, ws_pc, ws_client_id, ws_open,
                    connections, stt_instances, ws_pings, ws_reads >>

\* lines 112-120: receive_json raises, because the client is gone or sent
\* something that is not JSON; websocket_endpoint disconnects and returns
ReceiveRaises(c) ==
    /\ ws_pc[c] = "receiving"
    /\ ws_pc' = [ws_pc EXCEPT ![c] = "finished"]
    /\ ws_open' = [ws_open EXCEPT ![c] = FALSE]
    /\ connections' = disconnect(connections, ws_client_id[c])
    /\ stt_instances' = disconnect(stt_instances, ws_client_id[c])
    /\ UNCHANGED << rag_vars, scorer_vars, cleanup_vars, pair_vars, ws_client_id, ws_sent, ws_pings,
                    ws_reads, ws_tasks >>

InitStt == SttInit /\ RagIdle /\ ScorerIdle /\ CleanupIdle /\ PairIdle

NextStt ==
    \/ \E c \in Conns, client_id \in ClientIds : Connect(c, client_id)
    \/ \E c \in Conns : ClientCloses(c)
    \/ \E c \in Conns, message \in ClientMessages : HandleMessage(c, message)
    \/ \E c \in Conns : RunTask(c)
    \/ \E c \in Conns : ReceiveRaises(c)

SpecStt == InitStt /\ [][NextStt]_vars

(***************************************************************************)
(* cleanup_file_safely (main.py, lines 22-84).                             *)
(***************************************************************************)
\* the default of the parameter max_retries, which every caller uses
max_retries == 5

\* where cleanup_file_safely stands after os.unlink succeeded
after_unlink_continues == "loop"

\* line 50: return
after_unlink == "returned"

InitCleanup ==
    /\ cl_pc = "loop"
    /\ cl_attempt = 0
    /\ cl_log = <<>>
    /\ cl_registered = FALSE
    /\ RagIdle
    /\ ScorerIdle
    /\ SttInit
    /\ PairIdle

\* line 33: os.path.exists(file_path) is False, the iteration does nothing
FileAbsent ==
    /\ cl_pc = "loop"
    /\ cl_attempt < max_retries
    /\ cl_log' = Append(cl_log, "absent")
    /\ cl_attempt' = cl_attempt + 1
    /\ UNCHANGED << rag_vars, scorer_vars, stt_vars, pair_vars, cl_pc, cl_registered >>

\* lines 33-50: the file exists and os.unlink removes it
Unlinked ==
    /\ cl_pc = "loop"
    /\ cl_attempt < max_retries
    /\ cl_log' = Append(cl_log, "unlinked")
    /\ cl_attempt' = cl_attempt + 1
    /\ cl_pc' = after_unlink
    /\ UNCHANGED << rag_vars, scorer_vars, stt_vars, pair_vars, cl_registered >>

\* lines 52-81: os.unlink raises PermissionError; the handler sleeps before
\* the next attempt or, at the last attempt, registers the cleanup at exit
UnlinkPermissionError ==
    /\ cl_pc = "loop"
    /\ cl_attempt < max_retries
    /\ cl_log' = Append(cl_log, "PermissionError")
    /\ cl_registered' = IF cl_attempt < max_retries - 1 THEN cl_registered ELSE TRUE
    /\ cl_attempt' = cl_attempt + 1
    /\ UNCHANGED << rag_vars, scorer_vars, stt_vars, pair_vars, cl_pc >>

\* lines 82-84: any other exception ends the loop
UnlinkOtherError ==
    /\ cl_pc = "loop"
    /\ cl_attempt < max_retries
    /\ cl_log' = Append(cl_log, "OSError")
    /\ cl_attempt' = cl_attempt + 1
    /\ cl_pc' = "broken"
    /\ UNCHANGED << rag_vars, scorer_vars, stt_vars, pair_vars, cl_registered >>

\* line 31: range(max_retries) is used up
LoopEnds ==
    /\ cl_pc = "loop"
    /\ cl_attempt >= max_retries
    /\ cl_pc' = "exhausted"
    /\ UNCHANGED << rag_vars, scorer_vars, stt_vars, pair_vars, cl_attempt, cl_log,
                    cl_registered >>

NextCleanup ==
    \/ FileAbsent
    \/ Unlinked
    \/ UnlinkPermissionError
    \/ UnlinkOtherError
    \/ LoopEnds

\* every iteration ends: the sleeps of lines 39 and 72 are finite
SpecCleanup == InitCleanup /\ [][NextCleanup]_vars /\ WF_vars(NextCleanup)

(***************************************************************************)
(* Two executions of query_rag running together.                           *)
(***************************************************************************)

\* queries, index answers, drive answers, web backend outcomes and the model
\* answer of the two executions
PairQueries == { <<"n","e","w","s"," ","r","e","p","o","r","t">>, <<"r","e","v","e","n","u","e">> }

PairIndexResults == SeqsUpTo(IndexChunks, 1)

PairDriveResults == SeqsUpTo(DriveFiles, 1)

PairWebOutcomes ==
    { o \in BackendOutcomes :
        \/ o.kind = "raise"
        \/ o.kind = "text" /\ o.text = <<"S","t","o","c","k"," ","n","e","w","s"," ","t","o","d","a","y">> }

PairAnswers == { <<"[","2","]","[","1","]">> }

\* all executions work on one set of variables
frame_shared(e) == "q1"

\* lines 83-95, 131-132, 152, 182: the variables are locals of the call
frame(e) == e

Merge(rec, upd) ==
    [f \in DOMAIN rec |-> IF f \in DOMAIN upd THEN upd[f] ELSE rec[f]]

\* the local variables execution e works on
Local(e) == execs[frame(e)]

Running(e) == execs[e].pc \notin {"idle", "done"}

\* execution e takes a step: `seen` is where it stands and what it was
\* answered, `locals` the assignments to its local variables
Step(e, seen, locals) ==
    LET written == [execs EXCEPT ![frame(e)] = Merge(@, locals)]
        met == [overlapped |-> execs[e].overlapped
                               \/ \E o \in Execs \ {e} : Running(o)]
    IN  [written EXCEPT ![e] = Merge(Merge(@, seen), met)]

\* lines 78-95
PairBegin(e) ==
    /\ execs[e].pc = "idle"
    /\ \E query \in PairQueries :
          execs' = Step(e, [pc |-> "pdf", query |-> query],
                        [user_input |-> query,
                         is_external |-> is_external_query(query),
                         rag_docs |-> <<>>, citations |-> <<>>,
                         pdf_relevance_score |-> Zero, relevant_docs |-> <<>>])
    /\ UNCHANGED << rag_vars, scorer_vars, stt_vars, cleanup_vars >>

\* lines 97-129
PairPdf(e) ==
    /\ execs[e].pc = "pdf"
    /\ IF Local(e).is_external
       THEN execs' = Step(e, [pc |-> "select"], [pdf_relevance_score |-> Zero])
       ELSE \E docs \in PairIndexResults :
               LET kept == filter_docs(Local(e).user_input, docs)
               IN  execs' = Step(e, [pc |-> "select", index_answer |-> docs],
                                 [rag_docs |-> docs, relevant_docs |-> kept,
                                  pdf_relevance_score |-> normalize_score(kept),
                                  citations |->
                                      add_pdf_citations(Local(e).citations, kept)])
    /\ UNCHANGED << rag_vars, scorer_vars, stt_vars, cleanup_vars >>

\* lines 131-152
PairSelect(e) ==
    /\ execs[e].pc = "select"
    /\ LET chosen == select_sources(Local(e).user_input,
                                    Local(e).pdf_relevance_score)
       IN  execs' = Step(e, [pc |-> "drive"],
                         [use_web_search |-> chosen[1],
                          use_drive_search |-> chosen[2],
                          drive_results |-> <<>>])
    /\ UNCHANGED << rag_vars, scorer_vars, stt_vars, cleanup_vars >>

\* lines 153-182
PairDrive(e) ==
    /\ execs[e].pc = "drive"
    /\ IF Local(e).use_drive_search
       THEN \E raw \in PairDriveResults :
               LET kept == filter_drive(Local(e).user_input, raw)
               IN  execs' = Step(e, [pc |-> "web", drive_answer |-> raw],
                                 [drive_results |-> kept,
                                  citations |->
                                      add_drive_citations(Local(e).citations,
                                                          Local(e).user_input, kept),
                                  web_context |-> <<>>])
       ELSE execs' = Step(e, [pc |-> "web"], [web_context |-> <<>>])
    /\ UNCHANGED << rag_vars, scorer_vars, stt_vars, cleanup_vars >>

\* lines 183-209
PairWeb(e) ==
    /\ execs[e].pc = "web"
    /\ IF Local(e).use_web_search
       THEN \E outcome \in PairWebOutcomes :
               LET block == web_search_tool(Local(e).user_input, outcome)
                   web_relevance ==
                       calculate_text_relevance(Local(e).user_input, block)
                   kept == web_kept(block, web_relevance)
               IN  execs' = Step(e, [pc |-> "llm", web_answer |-> outcome],
                                 IF kept
                                 THEN [web_context |-> block,
                                       citations |->
                                           Append(Local(e).citations,
                                                  web_citation(Local(e).citations,
                                                               block, web_relevance))]
                                 ELSE [web_context |-> <<>>])
       ELSE execs' = Step(e, [pc |-> "llm"], [web_context |-> <<>>])
    /\ UNCHANGED << rag_vars, scorer_vars, stt_vars, cleanup_vars >>

\* lines 272-313
PairGenerate(e) ==
    /\ execs[e].pc = "llm"
    /\ \E answer_text \in PairAnswers :
          execs' = Step(e, [pc |-> "done", llm_answer |-> answer_text,
                            result |->
                                build_result(answer_text, Local(e).citations,
                                             Local(e).rag_docs,
                                             Local(e).relevant_docs,
                                             Local(e).drive_results,
                                             Local(e).web_context,
                                             Local(e).pdf_relevance_score)],
                        <<>>)
    /\ UNCHANGED << rag_vars, scorer_vars, stt_vars, cleanup_vars >>

InitPair == PairIdle /\ RagIdle /\ ScorerIdle /\ SttInit /\ CleanupIdle

NextPair ==
    \E e \in Execs :
        \/ PairBegin(e)
        \/ PairPdf(e)
        \/ PairSelect(e)
        \/ PairDrive(e)
        \/ PairWeb(e)
        \/ PairGenerate(e)

SpecPair == InitPair /\ [][NextPair]_vars

(***************************************************************************)
(* Claims.                                                                 *)
(***************************************************************************)
TypesOf(cits) == [i \in DOMAIN cits |-> cits[i].type]

HasType(cits, t) == \E i \in DOMAIN cits : cits[i].type = t

AfterSelection == pc \in {"drive", "web", "llm", "done"}

\* C1: the i-th citation created carries the label "[i]": the labels are
\* "[1]", "[2]", ..., "[n]" in creation order, without gap or repeat,
\* whatever sources were skipped, filtered to nothing or failed.
C1_DenseLabels ==
    \A i \in DOMAIN citations :
        /\ citations[i].citation = <<"[">> \o str_of_int(i) \o <<"]">>
        /\ Len(findall(citations[i].citation)) = 1
        /\ int_of_str(findall(citations[i].citation)[1]) = i

C1_Witness ==
    /\ pc = "done"
    /\ "cloud_file" \in raised
    /\ Len(rag_docs) > Len(relevant_docs)
    /\ TypesOf(citations) = <<"pdf", "web">>

\* C2: the validated list returned is a permutation of the list the
\* aggregator built: same length, every citation exactly once and unchanged.
C2_ValidatedIsPermutation ==
    pc = "done" =>
        /\ Len(result.citations) = Len(citations)
        /\ \A i \in DOMAIN citations :
              Cardinality({j \in DOMAIN result.citations :
                              result.citations[j] = citations[i]}) = 1

C2_Witness ==
    /\ pc = "done"
    /\ Len(citations) = 3
    /\ citations[1].content = citations[2].content
    /\ result.citations = <<citations[2], citations[1], citations[3]>>

\* C3: the validated list holds first the citations whose in-range markers
\* occur in the answer, ordered by the first occurrence of each marker, then
\* the citations no marker refers to, in creation order.
C3_ValidatedOrder ==
    pc = "done" =>
        LET v == result.citations
            groups == findall(result.response)
            nums == [k \in DOMAIN groups |-> int_of_str(groups[k])]
            referenced(i) == \E k \in DOMAIN nums : nums[k] = i
            first(i) == CHOOSE k \in DOMAIN nums :
                            nums[k] = i /\ \A m \in DOMAIN nums : nums[m] = i => k <= m
            created(c) == CHOOSE i \in DOMAIN citations : citations[i] = c
        IN  /\ \A a \in DOMAIN v : is_in(v[a], citations)
            /\ \A a, b \in DOMAIN v :
                  a < b =>
                     LET i == created(v[a])
                         j == created(v[b])
                     IN  IF referenced(i) /\ referenced(j) THEN first(i) < first(j)
                         ELSE IF referenced(i) THEN TRUE
                         ELSE ~referenced(j) /\ i < j

C3_Witness ==
    /\ pc = "done"
    /\ result.response = <<"[","1","]","[","3","]">>
    /\ Len(citations) = 3
    /\ result.citations = <<citations[1], citations[3], citations[2]>>

\* C4: when the document index search raises for a query that is not
\* external, query_rag does not raise: it returns a result without pdf
\* document or pdf citation, and the cloud-file and web searches are still
\* carried out.
C4_IndexFailureIsContained ==
    "document_index" \in raised =>
        /\ pc # "raised"
        /\ pc = "done" =>
              /\ result.sources_used.pdf_documents = 0
              /\ ~HasType(result.citations, "pdf")
              /\ is_in("cloud_file", calls)
              /\ is_in("web_search", calls)

\* C5: when the web search backend raises, the result counts no web search,
\* reports web_search_used false and holds no citation of type web.
C5_WebFailureLeavesNoCitation ==
    (pc = "done" /\ "web_search" \in raised) =>
        /\ result.sources_used.web_search = 0
        /\ ~result.relevance_info.web_search_used
        /\ ~HasType(result.citations, "web")

\* C6: when search_and_retrieve raises, query_rag goes on: no cloud file is
\* kept or cited, the pdf citations created before keep their labels
\* "[1]".."[n]", and the web search is still called when it is enabled.
C6_DriveFailureIsContained ==
    "cloud_file" \in raised =>
        /\ pc # "raised"
        /\ drive_results = <<>>
        /\ ~HasType(citations, "google_drive")
        /\ \A i \in 1..Len(relevant_docs) :
              /\ citations[i].type = "pdf"
              /\ citations[i].citation = label(i)
              /\ citations[i].content = preview(relevant_docs[i][1].page_content, 200)
        /\ pc = "done" =>
              /\ result.sources_used.google_drive_docs = 0
              /\ ~HasType(result.citations, "google_drive")
              /\ use_web_search => is_in("web_search", calls)

C6_Witness ==
    /\ pc = "done"
    /\ "cloud_file" \in raised
    /\ Len(relevant_docs) = 2
    /\ is_in("web_search", calls)

\* a query well covered by the documents, with no recency word, with a
\* web-only trigger word and a cloud-only trigger word
C7_BothTriggers ==
    /\ AfterSelection
    /\ ~FracLt(pdf_relevance_score, 3, 10)
    /\ ~any_in(recency_words, lower(user_input))
    /\ any_in(realtime_words, lower(user_input))
    /\ any_in(drive_words, lower(user_input))

\* C7 as stated: the triggers combine as a union, so such a query enables
\* both cloud-file search and web search.
C7_Union == C7_BothTriggers => (use_web_search /\ use_drive_search)

\* C7 as amended: the triggers are tested in order and the first that
\* matches decides, so such a query enables web search and not cloud-file
\* search.
C7_FirstMatchWins == C7_BothTriggers => (use_web_search /\ ~use_drive_search)

C7_Witness == C7_BothTriggers /\ pc = "done" /\ ~is_in("cloud_file", calls)

\* C8: whenever pdf_relevance_score < 0.3, which includes every external
\* query, the cloud file adapter and the web search adapter are both called,
\* also when neither contributes a citation.
C8_LowScoreCallsBoth ==
    /\ (is_external /\ AfterSelection) => FracLt(pdf_relevance_score, 3, 10)
    /\ (pc \in {"web", "llm", "done"} /\ FracLt(pdf_relevance_score, 3, 10))
          => is_in("cloud_file", calls)
    /\ (pc \in {"llm", "done"} /\ FracLt(pdf_relevance_score, 3, 10))
          => is_in("web_search", calls)

C8_Witness ==
    /\ pc = "done"
    /\ FracLt(pdf_relevance_score, 3, 10)
    /\ relevant_docs # <<>>
    /\ ~HasType(citations, "google_drive")
    /\ ~HasType(citations, "web")
    /\ is_in("cloud_file", calls)
    /\ is_in("web_search", calls)

HasDocumentTerm(q) == any_in(document_keywords, lower(q))

HasExternalTerm(q) == any_in(external_keywords, lower(q))

HasObviousPattern(q) == any_in(obvious_external_patterns, lower(q))

\* C9: is_external_query is true exactly when the lowercased query holds no
\* document term and holds an external term or an obvious-external pattern;
\* a query with a document term and an external term is not external.
C9_ClassifierRule ==
    pc = "pdf" =>
        /\ is_external <=> (/\ ~HasDocumentTerm(user_input)
                            /\ HasExternalTerm(user_input) \/ HasObviousPattern(user_input))
        /\ (HasDocumentTerm(user_input) /\ HasExternalTerm(user_input)) => ~is_external

C9_Witness ==
    /\ pc = "pdf"
    /\ user_input = <<"w","e","a","t","h","e","r"," ","P","D","F">>
    /\ HasDocumentTerm(user_input)
    /\ HasExternalTerm(user_input)
    /\ ~is_external

\* C10: for an external query the document index is never called, and the
\* result has pdf_relevance_score 0, no chunk found, no pdf document and no
\* citation of type pdf.
C10_ExternalSkipsIndex ==
    is_external =>
        /\ ~is_in("document_index", calls)
        /\ pc = "done" =>
              /\ result.relevance_info.pdf_relevance_score = Zero
              /\ result.relevance_info.total_pdf_chunks_found = 0
              /\ result.sources_used.pdf_documents = 0
              /\ ~HasType(result.citations, "pdf")

C10_Witness ==
    /\ pc = "done"
    /\ user_input = <<"W","h","a","t"," ","i","s"," ","t","h","e"," ","w","e","a","t","h","e","r"," ","i","n"," ","T","o","k","y","o"," ","t","o","d","a","y","?">>
    /\ is_external
    /\ is_in("web_search", calls)

CountType(cits, t) == Cardinality({i \in DOMAIN cits : cits[i].type = t})

\* the number a label "[n]" carries
LabelNum(c) == int_of_str(findall(c.citation)[1])

\* the terms of score_terms that occur in a text, by position
C11_Matched(text) ==
    {i \in DOMAIN score_terms : contains(lower(score_terms[i]), lower(text))}

\* C11: the score is the number of whitespace-delimited lowercase terms of
\* the query (duplicates counted) that occur in the lowercase text, divided
\* by the number of terms, and 0 without terms; it lies in [0,1], is 1 when
\* every term matches, 0 when none does, and never decreases when more
\* terms match.
C11_ScoreIsMatchedFraction ==
    score_pc = "scored" =>
        LET n == Len(score_terms)
            m == Cardinality(C11_Matched(score_text))
        IN  /\ n = 0 => score_value = Zero
            /\ n > 0 => score_value.num * n = m * score_value.den
            /\ 0 <= score_value.num /\ score_value.num <= score_value.den
            /\ (n > 0 /\ m = n) => score_value = [num |-> 1, den |-> 1]
            /\ m = 0 => score_value = [num |-> 0, den |-> 1]
            /\ \A other \in ScorerTexts :
                  LET s == calculate_text_relevance(score_query, other)
                  IN  Cardinality(C11_Matched(other)) >= m =>
                         s.num * score_value.den >= score_value.num * s.den

C11_Witness ==
    /\ score_pc = "scored"
    /\ score_terms = << <<"n","e","w">>, <<"z","e","b","r","a">>, <<"n","e","w">> >>
    /\ score_text = <<"N","E","W","S",":"," ","r","e","v","e","n","u","e"," ","u","p">>
    /\ score_value = [num |-> 2, den |-> 3]

\* C12: sources_used counts the citations returned, by type, and no raw
\* adapter result that was filtered out.
C12_CountsAreCitations ==
    pc = "done" =>
        /\ result.sources_used.pdf_documents = CountType(result.citations, "pdf")
        /\ result.sources_used.google_drive_docs
              = CountType(result.citations, "google_drive")
        /\ result.sources_used.web_search = CountType(result.citations, "web")
        /\ result.sources_used.web_search \in {0, 1}

C12_Witness ==
    /\ pc = "done"
    /\ Len(rag_docs) = 2
    /\ result.sources_used.pdf_documents = 1
    /\ Len(raw_drive_results) = 1
    /\ result.sources_used.google_drive_docs = 0

\* C13: when the generative model raises, query_rag returns all the same:
\* the response is the fallback message stating the number of citations,
\* and the citations are all those created, in creation order.
C13_ModelFailureGivesFallback ==
    "llm" \in raised =>
        /\ pc = "done"
        /\ result.response
              = <<"I"," ","f","o","u","n","d"," ","r","e","l","e","v","a","n","t"," ","i","n","f","o","r","m","a","t","i","o","n"," ","f","r","o","m"," ">> \o str_of_int(Len(citations))
                \o <<" ","s","o","u","r","c","e","s",","," ","b","u","t"," ","c","o","u","l","d","n","'","t"," ","g","e","n","e","r","a","t","e"," ","a"," ","c","o","m","p","l","e","t","e"," ","r","e","s","p","o","n","s","e","."," ","P","l","e","a","s","e"," ","t","r","y"," ","r","e","p","h","r","a","s","i","n","g"," ","y","o","u","r"," ","q","u","e","s","t","i","o","n",".">>
        /\ result.citations = citations

C13_Witness ==
    /\ pc = "done"
    /\ "llm" \in raised
    /\ TypesOf(result.citations) = <<"pdf", "google_drive", "web">>

\* the numbers of the markers of the answer that refer to a citation, each
\* once, in the order of first occurrence
RECURSIVE C14_InRangeOnce(_, _, _)
C14_InRangeOnce(nums, n, seen) ==
    IF nums = <<>> THEN seen
    ELSE C14_InRangeOnce(Tail(nums), n,
                         IF nums[1] >= 1 /\ nums[1] <= n /\ ~is_in(nums[1], seen)
                         THEN Append(seen, nums[1]) ELSE seen)

\* C14: a marker [n] with n = 0 or n above the number of citations is
\* skipped: the validated list is the one the in-range markers alone give,
\* with nothing added and no citation displaced.
C14_OutOfRangeMarkersSkipped ==
    pc = "done" =>
        LET groups == findall(result.response)
            nums == [k \in DOMAIN groups |-> int_of_str(groups[k])]
            used == C14_InRangeOnce(nums, Len(citations), <<>>)
            unused == SelectSeq([i \in DOMAIN citations |-> i],
                                LAMBDA i : ~is_in(i, used))
            order == used \o unused
        IN  result.citations = [k \in DOMAIN order |-> citations[order[k]]]

C14_Witness ==
    /\ pc = "done"
    /\ result.response = <<"[","0","]","[","3","]">>
    /\ Len(citations) = 2
    /\ result.citations = citations

TypeRank(t) == CASE t = "pdf" -> 1 [] t = "google_drive" -> 2 [] t = "web" -> 3

\* C15: in the list the aggregator builds, the pdf citations come first,
\* then the google_drive citations, then the web citation, and the labels
\* grow accordingly, whatever the adapters return.
C15_SourceOrder ==
    /\ CountType(citations, "web") <= 1
    /\ \A i, j \in DOMAIN citations :
          TypeRank(citations[i].type) < TypeRank(citations[j].type) =>
             /\ i < j
             /\ LabelNum(citations[i]) < LabelNum(citations[j])

C15_Witness ==
    /\ pc = "done"
    /\ TypesOf(citations) = <<"pdf", "google_drive", "web">>

IsBlank(text) == \A i \in DOMAIN text : text[i] \in Whitespace

\* C16: for an empty or whitespace-only query, with the adapters returning
\* normally, query_rag does not raise, nothing passes a threshold and the
\* result has no citation and zero counts.
C16_BlankQueryFindsNothing ==
    (IsBlank(user_input) /\ raised = {}) =>
        /\ pc # "raised"
        /\ pdf_relevance_score = Zero
        /\ relevant_docs = <<>>
        /\ drive_results = <<>>
        /\ web_context = <<>>
        /\ citations = <<>>
        /\ pc = "done" =>
              /\ result.citations = <<>>
              /\ result.sources_used
                    = [pdf_documents |-> 0, google_drive_docs |-> 0, web_search |-> 0]

C16_Witness ==
    /\ pc = "done"
    /\ user_input = <<" ","	">>
    /\ raised = {}
    /\ rag_docs # <<>>
    /\ raw_drive_results # <<>>
    /\ is_in("web_search", calls)

\* C18: an empty answer of the generative model is replaced by the fallback
\* answer; the fallback answer is not empty, so no response returned is.
C18_EmptyAnswerReplaced ==
    pc = "done" => result.response # <<>>

\* chunk i of those returned has a relevance strictly above 0.2
C19_Above(i) ==
    LET r == calculate_text_relevance(user_input, rag_docs[i].page_content)
    IN  5 * r.num > r.den

\* the number of query terms matched, summed over the chunks at positions kept
RECURSIVE C19_Matches(_, _)
C19_Matches(kept, n) ==
    IF kept = <<>> THEN 0
    ELSE LET r == calculate_text_relevance(user_input, rag_docs[kept[1]].page_content)
         IN  r.num * (n \div r.den) + C19_Matches(Tail(kept), n)

\* C19: a chunk gives a pdf citation exactly when its relevance is strictly
\* above 0.2, and pdf_relevance_score is the mean of the relevances of the
\* kept chunks, or 0 when none is kept.
C19_ChunkThresholdAndMean ==
    LET kept == SelectSeq([i \in DOMAIN rag_docs |-> i], C19_Above)
        n == Len(split(user_input))
    IN  /\ Len(relevant_docs) = Len(kept)
        /\ CountType(citations, "pdf") = Len(kept)
        /\ \A k \in DOMAIN kept :
              /\ relevant_docs[k][1] = rag_docs[kept[k]]
              /\ citations[k].type = "pdf"
              /\ citations[k].page = rag_docs[kept[k]].page
              /\ citations[k].content = preview(rag_docs[kept[k]].page_content, 200)
              /\ citations[k].relevance
                    = calculate_text_relevance(user_input, rag_docs[kept[k]].page_content)
              /\ relevant_docs[k][2] = citations[k].relevance
        /\ IF kept = <<>> THEN pdf_relevance_score = Zero
           ELSE pdf_relevance_score.num * n * Len(kept)
                   = C19_Matches(kept, n) * pdf_relevance_score.den

C19_Witness ==
    /\ pc = "llm"
    /\ user_input = <<"d","i","d"," ","r","e","v","e","n","u","e"," ","g","o"," ","u","p"," ","y","e","t">>
    /\ Len(rag_docs) = 2
    /\ \A i \in DOMAIN rag_docs :
          calculate_text_relevance(user_input, rag_docs[i].page_content)
             = [num |-> 1, den |-> 5]
    /\ ~HasType(citations, "pdf")

\* file i of those returned has a relevance, name first, strictly above 0.1
C20_Above(i) ==
    LET f == raw_drive_results[i]
        r == calculate_text_relevance(user_input, f.name \o <<" ">> \o f.content)
    IN  10 * r.num > r.den

Pongs(c) ==
    LET pongs == SelectSeq(ws_sent[c], LAMBDA m : m.type = "pong")
    IN  [k \in DOMAIN pongs |-> pongs[k].timestamp]

\* C17: on every connection the first message sent is the status message,
\* and while the connection is open and served, the pongs sent on it are
\* exactly the answers to the pings read from it, one each, in order, by
\* the time the next message can be read.
C17_StatusThenPongPerPing ==
    \A c \in Conns :
        /\ ws_sent[c] # <<>> => ws_sent[c][1].type = "status"
        /\ (ws_pc[c] = "receiving" /\ ws_open[c]) => Pongs(c) = ws_pings[c]

\* C21: the web block is one candidate: a result has at most one web
\* citation, and has one exactly when web search was enabled, the block
\* returned is not empty and its relevance to the query is strictly above
\* 0.1.
C21_OneWebCitationIffRelevant ==
    pc = "done" =>
        LET cited == SelectSeq(result.citations, LAMBDA c : c.type = "web")
        IN  /\ Len(cited) <= 1
            /\ Len(cited) = 1 <=>
                  /\ use_web_search
                  /\ web_results # <<>>
                  /\ LET r == calculate_text_relevance(user_input, web_results)
                     IN  10 * r.num > r.den
            /\ Len(cited) = 1 =>
                  /\ cited[1].content = preview(web_results, 200)
                  /\ result.sources_used.web_search = 1

C21_Witness ==
    /\ pc = "done"
    /\ use_web_search
    /\ web_results = <<"r","e","v","e","n","u","e">>
    /\ calculate_text_relevance(user_input, web_results) = [num |-> 1, den |-> 10]
    /\ ~HasType(result.citations, "web")

\* C22: with pdf_relevance_score at least 0.3 and a query holding no
\* recency word, no real-time word and no document word, neither the cloud
\* file adapter nor the web search adapter is invoked, and the result counts
\* no google_drive document and no web search.
C22_NoTriggerNoExternalSource ==
    (/\ ~FracLt(pdf_relevance_score, 3, 10)
     /\ ~any_in(recency_words, lower(user_input))
     /\ ~any_in(realtime_words, lower(user_input))
     /\ ~any_in(drive_words, lower(user_input)))
    => /\ ~is_in("cloud_file", calls)
       /\ ~is_in("web_search", calls)
       /\ AfterSelection => (~use_web_search /\ ~use_drive_search)
       /\ pc = "done" =>
             /\ result.sources_used.google_drive_docs = 0
             /\ result.sources_used.web_search = 0
             /\ TypesOf(result.citations) = [i \in DOMAIN relevant_docs |-> "pdf"]

C22_Witness ==
    /\ pc = "done"
    /\ user_input = <<"r","e","v","e","n","u","e">>
    /\ pdf_relevance_score = [num |-> 1, den |-> 1]
    /\ calls = <<"document_index", "llm">>

\* the number of times a collaborator was invoked
Invocations(name) == Cardinality({i \in DOMAIN calls : calls[i] = name})

\* the position of a collaborator in the order of invocation
CallRank(name) ==
    CASE name = "document_index" -> 1 [] name = "cloud_file" -> 2
      [] name = "web_search" -> 3 [] name = "llm" -> 4

\* C23: within one query each adapter is invoked at most once, also after
\* it failed, in the order document index, cloud file, web search; and the
\* generative model is invoked exactly once, after every adapter call.
C23_OnceEachThenModelOnce ==
    /\ \A i, j \in DOMAIN calls : i < j => CallRank(calls[i]) < CallRank(calls[j])
    /\ pc \in {"done", "raised"} => Invocations("llm") = 1

\* C28: a query containing "news" matches the recency word "new" first:
\* with pdf_relevance_score at least 0.3, both the cloud file search and the
\* web search are enabled and carried out, never the web search alone.
C28_NewsMatchesRecencyRule ==
    (/\ AfterSelection
     /\ contains(<<"n","e","w","s">>, lower(user_input))
     /\ ~FracLt(pdf_relevance_score, 3, 10))
    => /\ use_web_search
       /\ use_drive_search
       /\ pc \in {"web", "llm", "done"} => is_in("cloud_file", calls)
       /\ pc \in {"llm", "done"} => is_in("web_search", calls)

C28_Witness ==
    /\ pc = "done"
    /\ user_input = <<"n","e","w","s"," ","r","e","p","o","r","t">>
    /\ pdf_relevance_score = [num |-> 1, den |-> 1]
    /\ is_in("cloud_file", calls)
    /\ is_in("web_search", calls)

\* C27: when web_search_tool finds nothing that passes its own filter and
\* returns its "No relevant web search results found for this query."
\* message, query_rag makes no web citation and reports no web search.
C27_NoResultMessageNotCited ==
    web_results = <<"N","o"," ","r","e","l","e","v","a","n","t"," ","w","e","b"," ","s","e","a","r","c","h"," ","r","e","s","u","l","t","s"," ","f","o","u","n","d"," ","f","o","r"," ","t","h","i","s"," ","q","u","e","r","y",".">>
    => /\ ~HasType(citations, "web")
       /\ web_context = <<>>
       /\ pc = "done" => result.sources_used.web_search = 0

\* C29: with the mock cloud file client, every query of at least one term
\* for which the cloud file search is enabled gives exactly one google_drive
\* citation, of relevance 1, the mock document embedding the query.
C29_MockDocumentAlwaysCited ==
    (/\ drive_client = "mock"
     /\ pc \in {"web", "llm", "done"}
     /\ use_drive_search
     /\ split(user_input) # <<>>)
    => LET cited == SelectSeq(citations, LAMBDA c : c.type = "google_drive")
       IN  /\ Len(cited) = 1
           /\ cited[1].relevance = [num |-> 1, den |-> 1]
           /\ cited[1].name = <<"M","o","c","k"," ","D","o","c","u","m","e","n","t"," ","a","b","o","u","t"," ">> \o user_input
           /\ cited[1].url = "https://docs.google.com/mock"
           /\ pc = "done" =>
                 /\ result.sources_used.google_drive_docs = 1
                 /\ CountType(result.citations, "google_drive") = 1

C29_Witness ==
    /\ pc = "done"
    /\ drive_client = "mock"
    /\ user_input = <<"r","e","v","e","n","u","e">>
    /\ use_drive_search
    /\ CountType(result.citations, "google_drive") = 1

\* C25: an open connection that has completed connect keeps its registration
\* whatever other connections do, the same client_id included, and every
\* ping read from it has been answered with a pong.
C25_RegistrationSurvivesOthers ==
    \A c \in Conns :
        (ws_pc[c] = "receiving" /\ ws_open[c]) =>
            /\ connections[ws_client_id[c]] # None
            /\ stt_instances[ws_client_id[c]] # None
            /\ Len(Pongs(c)) = Len(ws_pings[c])

\* C26: once websocket_endpoint has finished for a connection, by a
\* disconnect, by an error or by a failure to send the status message, no
\* registry holds an entry of that connection.
C26_FinishedLeavesNoEntry ==
    \A c \in Conns :
        ws_pc[c] \in {"finished", "failed"} =>
            /\ connections[ws_client_id[c]] # c
            /\ stt_instances[ws_client_id[c]] # c

\* the value query_rag returns for `query` when it runs alone and is
\* answered docs, raw, outcome and answer_text
alone(query, docs, raw, outcome, answer_text) ==
    LET kept == IF is_external_query(query) THEN <<>> ELSE filter_docs(query, docs)
        found == IF is_external_query(query) THEN <<>> ELSE docs
        score == normalize_score(kept)
        chosen == select_sources(query, score)
        files == IF chosen[2] THEN filter_drive(query, raw) ELSE <<>>
        listed == add_drive_citations(add_pdf_citations(<<>>, kept), query, files)
        block == web_search_tool(query, outcome)
        web_relevance == calculate_text_relevance(query, block)
        web == IF chosen[1] /\ web_kept(block, web_relevance) THEN block ELSE <<>>
        cits == IF web # <<>>
                THEN Append(listed, web_citation(listed, block, web_relevance))
                ELSE listed
    IN  build_result(answer_text, cits, found, kept, files, web, score)

\* C24: whatever the interleaving of two executions of query_rag, an
\* execution that returned gives the citations (labels and validated
\* order) and the counts the same query gives when it runs alone and gets
\* the same answers from the index, the drive, the web search and the model
C24_AsIfAlone ==
    \A e \in Execs :
        execs[e].pc = "done" =>
            execs[e].result = alone(execs[e].query, execs[e].index_answer,
                                   execs[e].drive_answer, execs[e].web_answer,
                                   execs[e].llm_answer)

\* both executions returned after running together, on different queries,
\* one of them with three citations reordered by the answer
C24_Witness ==
    /\ \A e \in Execs : execs[e].pc = "done" /\ execs[e].overlapped
    /\ execs["q1"].query # execs["q2"].query
    /\ \E e \in Execs :
          /\ Len(execs[e].result.citations) = 3
          /\ execs[e].result.citations[1].citation = <<"[","2","]">>

\* the iterations of cleanup_file_safely that called os.unlink
UnlinkAttempts == {i \in DOMAIN cl_log : cl_log[i] # "absent"}

C30_Shape ==
    /\ Len(cl_log) = cl_attempt
    /\ cl_attempt <= max_retries
    /\ \A i \in DOMAIN cl_log :
          /\ cl_log[i] = "unlinked" => (i = Len(cl_log) /\ cl_pc = "returned")
          /\ cl_log[i] = "OSError" => (i = Len(cl_log) /\ cl_pc = "broken")
    /\ \A i, j \in UnlinkAttempts : i < j => cl_log[i] = "PermissionError"
    /\ cl_registered <=>
          (Len(cl_log) = max_retries /\ cl_log[max_retries] = "PermissionError")

\* C30: cleanup_file_safely ends within max_retries iterations; no unlink
\* is attempted after a successful one, an unlink is retried only after a
\* PermissionError, any other error ends the loop at once, and the cleanup
\* at exit is registered exactly when the last of the max_retries attempts
\* fails with a PermissionError.
C30_CleanupTerminates == []C30_Shape /\ <>(cl_pc \in {"returned", "broken", "exhausted"})

C30_Witness ==
    /\ cl_pc = "exhausted"
    /\ cl_registered
    /\ cl_log[1] = "absent"
    /\ cl_log[2] = "PermissionError"
    /\ Len(cl_log) = max_retries

=============================================================================
